---- MODULE Spec2Model ----
(***************************************************************************)
(* The recruitment pipeline of recruitment_assistant/agents/crew.py:       *)
(* ResearcherAgent, EvaluatorAgent, RecommenderAgent, WriterAgent and the  *)
(* RecruitmentCrew orchestrator that sequences them and keeps the latest   *)
(* snapshots and the risk history.                                         *)
(*                                                                         *)
(* Scores are kept as integers in units of 1/10000 (0.65 is 6500), which   *)
(* represents every constant of the code exactly: 1/400 is 25 units.       *)
(*                                                                         *)
(* An exception is a sequence of frames, outermost first: frame i+1 is the *)
(* __cause__ of frame i ("raise CrewError(...) from exc").                 *)
(*                                                                         *)
(* Python objects that do not have their declared type are records whose   *)
(* field "defect" (or "keys", "bonus_is_number") says which attribute is   *)
(* off; the code never validates its inputs, so callers can pass them.     *)
(***************************************************************************)
EXTENDS Integers, Sequences, FiniteSets, TLC

VARIABLES
    policy,              \* RecruitmentCrew.policy
    active_policy,       \* RecommenderAgent.active_policy
    latest_candidates,   \* RecruitmentCrew.latest_candidates
    latest_evaluations,  \* RecruitmentCrew.latest_evaluations
    risk_history,        \* RecruitmentCrew.risk_history
    job_description,     \* RecruitmentCrew.job_description
    candidate_pool,      \* ResearcherAgent._candidate_pool
    bias_thresholds,     \* EvaluatorAgent._bias_thresholds
    last,                \* the most recent public call: arguments and outcome
    campaigns,           \* CampaignStore._campaigns
    audit_logs,          \* CampaignStore._audit_logs
    lock,                \* CampaignStore._lock: its holder, or "free"
    background_tasks,    \* BackgroundTasks queued by a handler, not yet run
    response,            \* the most recent HTTP response of the API
    threads,             \* each running call: its position and its locals
    events               \* the structured event sink of the tracers

crewvars == <<policy, active_policy, latest_candidates, latest_evaluations,
              risk_history, job_description, candidate_pool, bias_thresholds, last>>

servicevars == <<campaigns, audit_logs, lock, background_tasks, response, threads, events>>

vars == <<policy, active_policy, latest_candidates, latest_evaluations,
          risk_history, job_description, candidate_pool, bias_thresholds, last,
          campaigns, audit_logs, lock, background_tasks, response, threads, events>>

-----------------------------------------------------------------------------
(* Bounds of the model *)

MaxHistory == 2

-----------------------------------------------------------------------------
(* Program constants, in units of 1/10000 *)

ResearchScoreCap == 9500
ContentBonusPerChar == 25
EvaluationBoost == 1000
ScoreCap == 10000
DefaultBiasThreshold == 6500
DefaultDiversityBonus == 500

-----------------------------------------------------------------------------
(* Helpers *)

Min(a, b) == IF a <= b THEN a ELSE b
Max(a, b) == IF a >= b THEN a ELSE b

Contains(seq, x) == \E i \in DOMAIN seq : seq[i] = x

RECURSIVE SumSeq(_)
SumSeq(s) == IF s = <<>> THEN 0 ELSE Head(s) + SumSeq(Tail(s))

\* An optional argument: None, or a supplied value.
None == [given |-> FALSE]
Some(v) == [given |-> TRUE, value |-> v]

\* Outcome of a block of code: a value, or an exception (frames, outermost first).
Return(v) == [ok |-> TRUE, value |-> v, exc |-> <<>>]
Raise(frames) == [ok |-> FALSE, value |-> <<>>, exc |-> frames]

Frame(kind, agent, operation) == [kind |-> kind, agent |-> agent, operation |-> operation]
Builtin(kind) == Frame(kind, "", "")

-----------------------------------------------------------------------------
(* Data *)

ProfileKeys == {"name", "role", "score", "tags", "data_sources", "profile_url"}

Profile(name, role, score, tags) ==
    [name |-> name, role |-> role, score |-> score, tags |-> tags, keys |-> ProfileKeys]

BASE_PROFILES ==
    << Profile("Alex Dev", "Backend Engineer", 6000,
               <<"Data Deficient", "Manual Review Required">>),
       Profile("Marina Byte", "Full Stack Engineer", 7200, <<"High Confidence">>),
       Profile("Kai Ops", "DevOps Engineer", 6800, <<"Manual Review Required">>),
       Profile("Nia Vector", "Platform Architect", 6400, <<"Leadership Potential">>) >>

\* A caller-supplied catalog whose last record lacks the "score" key.
IncompletePool ==
    [BASE_PROFILES EXCEPT ![4].keys = ProfileKeys \ {"score"}]

JobDescriptionModel(title, content_len) == [title |-> title, content_len |-> content_len]

DefaultJD == JobDescriptionModel("Talent Search", 15)
SeedJD == JobDescriptionModel("AI Platform Engineer", 64)
TestJD == JobDescriptionModel("Senior Python Engineer", 19)

RankingPolicy(name, diversity_bonus) ==
    [name |-> name, diversity_bonus |-> diversity_bonus, bonus_is_number |-> TRUE]

DefaultPolicy == RankingPolicy("balanced", DefaultDiversityBonus)
PenaltyPolicy == RankingPolicy("penalty", 0 - 500)
\* RankingPolicy(name="unset", diversity_bonus=None)
UnsetPolicy == [name |-> "unset", diversity_bonus |-> 0, bonus_is_number |-> FALSE]

DefaultThresholds == [r \in {"default"} |-> DefaultBiasThreshold]
OverrideWithDefault ==
    [r \in {"default", "Backend Engineer"} |->
        IF r = "default" THEN DefaultBiasThreshold ELSE 7000]
OverrideOnly == [r \in {"Backend Engineer"} |-> 7000]
EmptyThresholds == [r \in {} |-> 0]

-----------------------------------------------------------------------------
(* _stable_candidate_id: "CAN-" + the first 8 hex digits of md5(name|title),
   upper-cased; the digests of the names and titles the model uses. *)

stable_candidate_id(name, job_title) ==
    CASE job_title = "Talent Search" ->
            (CASE name = "Alex Dev" -> "CAN-7221B29F"
               [] name = "Marina Byte" -> "CAN-002EDF72"
               [] name = "Kai Ops" -> "CAN-A20CD82B"
               [] name = "Nia Vector" -> "CAN-15177D6E")
      [] job_title = "AI Platform Engineer" ->
            (CASE name = "Alex Dev" -> "CAN-4F29A52B"
               [] name = "Marina Byte" -> "CAN-653490F0"
               [] name = "Kai Ops" -> "CAN-FAFB0019"
               [] name = "Nia Vector" -> "CAN-8A81E7A0")
      [] job_title = "Senior Python Engineer" ->
            (CASE name = "Alex Dev" -> "CAN-302B035E"
               [] name = "Marina Byte" -> "CAN-7136A88A"
               [] name = "Kai Ops" -> "CAN-B7BA38B1"
               [] name = "Nia Vector" -> "CAN-481C255E")

-----------------------------------------------------------------------------
(* AgentTracer.trace: an exception leaving the block is re-raised as
   CrewError(agent, operation) with the exception as its cause. *)

trace(agent, operation, block) ==
    IF block.ok
    THEN block
    ELSE Raise(<<Frame("CrewError", agent, operation)>> \o block.exc)

-----------------------------------------------------------------------------
(* ResearcherAgent.research *)

\* pool[:limit] with Python's slice semantics (a negative limit counts from the end).
SliceTo(pool, limit) ==
    LET n == Len(pool)
        stop == IF limit >= 0 THEN Min(limit, n) ELSE Max(0, n + limit)
    IN  SubSeq(pool, 1, stop)

\* A faulty seed: the id also depends on the job description's content.
CandidateSeed_id_from_content(profile, jd) ==
    [candidate_id |-> <<stable_candidate_id(profile.name, jd.title), jd.content_len>>,
     name |-> profile.name,
     role |-> profile.role,
     score |-> Min(ResearchScoreCap, profile.score + ContentBonusPerChar * jd.content_len),
     rationale |-> <<profile.name, profile.role, jd.title>>,
     tags |-> profile.tags]

CandidateSeed(profile, jd) ==
    [candidate_id |-> stable_candidate_id(profile.name, jd.title),
     name |-> profile.name,
     role |-> profile.role,
     score |-> Min(ResearchScoreCap, profile.score + ContentBonusPerChar * jd.content_len),
     rationale |-> <<profile.name, profile.role, jd.title>>,
     tags |-> profile.tags]

research_block(pool, jd, limit) ==
    LET slice == SliceTo(pool, limit) IN
    IF \E i \in DOMAIN slice : ~({"name", "score", "role", "tags", "data_sources"} \subseteq slice[i].keys)
    THEN Raise(<<Builtin("KeyError")>>)
    ELSE Return([i \in DOMAIN slice |-> CandidateSeed(slice[i], jd)])

research(pool, jd, limit) == trace("researcher", "research", research_block(pool, jd, limit))

-----------------------------------------------------------------------------
(* EvaluatorAgent *)

\* dict(bias_thresholds or {"default": 0.65}): an empty mapping counts as absent.
EvaluatorThresholds(bias_thresholds_arg) ==
    IF DOMAIN bias_thresholds_arg = {} THEN DefaultThresholds ELSE bias_thresholds_arg

\* A faulty _derive_bias_flags: a score equal to the threshold is flagged too.
derive_bias_flags_inclusive(thresholds, seed) ==
    LET threshold == IF seed.role \in DOMAIN thresholds
                     THEN thresholds[seed.role]
                     ELSE thresholds["default"]
    IN  (IF Contains(seed.tags, "Data Deficient") THEN <<"Data Deficient">> ELSE <<>>)
        \o (IF Contains(seed.tags, "Manual Review Required")
            THEN <<"Manual Review Required">> ELSE <<>>)
        \o (IF seed.score <= threshold THEN <<"Bias Warning">> ELSE <<>>)

\* _derive_bias_flags, for a threshold map that has its "default" entry.
derive_bias_flags(thresholds, seed) ==
    LET threshold == IF seed.role \in DOMAIN thresholds
                     THEN thresholds[seed.role]
                     ELSE thresholds["default"]
    IN  (IF Contains(seed.tags, "Data Deficient") THEN <<"Data Deficient">> ELSE <<>>)
        \o (IF Contains(seed.tags, "Manual Review Required")
            THEN <<"Manual Review Required">> ELSE <<>>)
        \o (IF seed.score < threshold THEN <<"Bias Warning">> ELSE <<>>)

\* A faulty result: the boosted score is not capped at 1.0.
EvaluationResult_uncapped(thresholds, seed) ==
    [candidate_id |-> seed.candidate_id,
     candidate_name |-> seed.name,
     role |-> seed.role,
     score |-> seed.score + EvaluationBoost,
     rationale |-> seed.rationale,
     bias_flags |-> derive_bias_flags(thresholds, seed),
     tags |-> seed.tags,
     defect |-> "none"]

EvaluationResult(thresholds, seed) ==
    [candidate_id |-> seed.candidate_id,
     candidate_name |-> seed.name,
     role |-> seed.role,
     score |-> Min(ScoreCap, seed.score + EvaluationBoost),
     rationale |-> seed.rationale,
     bias_flags |-> derive_bias_flags(thresholds, seed),
     tags |-> seed.tags,
     defect |-> "none"]

\* self._bias_thresholds["default"] is evaluated for every seed, as the
\* argument of .get(): without that entry the first seed raises KeyError.
evaluate_block(thresholds, seeds) ==
    IF seeds # <<>> /\ "default" \notin DOMAIN thresholds
    THEN Raise(<<Builtin("KeyError")>>)
    ELSE Return([i \in DOMAIN seeds |-> EvaluationResult(thresholds, seeds[i])])

evaluate(thresholds, seeds) == trace("evaluator", "evaluate", evaluate_block(thresholds, seeds))

-----------------------------------------------------------------------------
(* RecommenderAgent.recommend *)

\* A faulty sort: an evaluation is placed before the earlier ones of equal score.
InsertByScore_unstable(sorted, e) ==
    LET before == {i \in DOMAIN sorted : sorted[i].score > e.score}
        k == Cardinality(before)
    IN  SubSeq(sorted, 1, k) \o <<e>> \o SubSeq(sorted, k + 1, Len(sorted))

\* sorted(evaluations, key=score, reverse=True): stable, equal scores keep input order.
InsertByScore(sorted, e) ==
    LET before == {i \in DOMAIN sorted : sorted[i].score >= e.score}
        k == Cardinality(before)
    IN  SubSeq(sorted, 1, k) \o <<e>> \o SubSeq(sorted, k + 1, Len(sorted))

RECURSIVE SortByScoreDesc(_)
SortByScoreDesc(evaluations) ==
    IF evaluations = <<>> THEN <<>>
    ELSE InsertByScore(SortByScoreDesc(SubSeq(evaluations, 1, Len(evaluations) - 1)),
                       evaluations[Len(evaluations)])

HasDiversityTag(evaluation) ==
    \E i \in DOMAIN evaluation.tags :
        evaluation.tags[i] \in {"Manual Review Required", "Data Deficient"}

\* "if evaluation.bias_flags": an iterator object is true even when it yields nothing.
FlagsTruthy(evaluation) ==
    evaluation.defect = "bias_flags" \/ evaluation.bias_flags # <<>>

\* A faulty entry: the note follows the diversity tags, not the bias flags.
RankedCandidate_notes_from_tags(evaluation, position, pol) ==
    LET diversity_boost == IF HasDiversityTag(evaluation) THEN pol.diversity_bonus ELSE 0 IN
    [candidate_id |-> evaluation.candidate_id,
     name |-> evaluation.candidate_name,
     role |-> evaluation.role,
     final_score |-> Min(ScoreCap, evaluation.score + diversity_boost),
     rationale |-> evaluation.rationale,
     tags |-> evaluation.tags,
     bias_flags |-> evaluation.bias_flags,
     rank_label |-> 1 + (position - 1) \div 2,
     notes |-> IF HasDiversityTag(evaluation) THEN "Manual review advised." ELSE "None",
     defect |-> IF evaluation.defect = "rationale" THEN "rationale" ELSE "none"]

RankedCandidate(evaluation, position, pol) ==
    LET diversity_boost == IF HasDiversityTag(evaluation) THEN pol.diversity_bonus ELSE 0 IN
    [candidate_id |-> evaluation.candidate_id,
     name |-> evaluation.candidate_name,
     role |-> evaluation.role,
     final_score |-> Min(ScoreCap, evaluation.score + diversity_boost),
     rationale |-> evaluation.rationale,
     tags |-> evaluation.tags,
     bias_flags |-> evaluation.bias_flags,
     rank_label |-> 1 + (position - 1) \div 2,
     notes |-> IF FlagsTruthy(evaluation) THEN "Manual review advised." ELSE "None",
     defect |-> IF evaluation.defect = "rationale" THEN "rationale" ELSE "none"]

\* The block raises TypeError when a score is None, or when a None bonus is added.
recommend_block(evaluations, pol) ==
    IF \E i \in DOMAIN evaluations : evaluations[i].defect = "score"
    THEN Raise(<<Builtin("TypeError")>>)
    ELSE IF ~pol.bonus_is_number /\ \E i \in DOMAIN evaluations : HasDiversityTag(evaluations[i])
    THEN Raise(<<Builtin("TypeError")>>)
    ELSE LET sorted_evaluations == SortByScoreDesc(evaluations) IN
         Return([p \in DOMAIN sorted_evaluations |->
                    RankedCandidate(sorted_evaluations[p], p, pol)])

recommend(evaluations, pol) ==
    trace("recommender", "recommend", recommend_block(evaluations, pol))

-----------------------------------------------------------------------------
(* RecruitmentCrew.assess_risk: no trace boundary of its own.  The score
   min(1.0, flags / max(1, n)) is kept as the fraction num/den. *)

\* A faulty score: the plain quotient, without the min(1.0, ...) clamp.
RiskAssessment_unclamped(flag_count, n) ==
    LET den == Max(1, n)
    IN  [score |-> [num |-> flag_count, den |-> den],
         bias_flags |-> flag_count,
         level |-> IF 10 * flag_count > 3 * den THEN "elevated" ELSE "standard"]

RiskAssessment(flag_count, n) ==
    LET den == Max(1, n)
        num == Min(flag_count, den)
    IN  [score |-> [num |-> num, den |-> den],
         bias_flags |-> flag_count,
         level |-> IF 10 * num > 3 * den THEN "elevated" ELSE "standard"]

\* A faulty assess_risk: divides by len(evaluations) without the max(1, ...) guard.
assess_risk_unguarded(evaluations) ==
    IF evaluations = <<>>
    THEN Raise(<<Builtin("ZeroDivisionError")>>)
    ELSE Return(RiskAssessment(
            SumSeq([i \in DOMAIN evaluations |-> Len(evaluations[i].bias_flags)]),
            Len(evaluations)))

\* len() of an iterator raises TypeError.
assess_risk(evaluations) ==
    IF \E i \in DOMAIN evaluations : evaluations[i].defect = "bias_flags"
    THEN Raise(<<Builtin("TypeError")>>)
    ELSE Return(RiskAssessment(
            SumSeq([i \in DOMAIN evaluations |-> Len(evaluations[i].bias_flags)]),
            Len(evaluations)))

-----------------------------------------------------------------------------
(* WriterAgent.draft *)

OutreachDraft(campaign_id, candidate, template) ==
    [campaign_id |-> campaign_id, candidate_id |-> candidate.candidate_id,
     template |-> template]

\* candidate.rationale.lower() raises AttributeError when the rationale is None.
draft_block(campaign_id, candidate, template) ==
    IF candidate.defect = "rationale"
    THEN Raise(<<Builtin("AttributeError")>>)
    ELSE Return(OutreachDraft(campaign_id, candidate, template))

draft(campaign_id, candidate, template) ==
    trace("writer", "draft", draft_block(campaign_id, candidate, template))


-----------------------------------------------------------------------------
(* Inputs the callers supply *)

Limits == {0 - 1, 0, 2, 4}
JobDescriptionArgs == {None, Some(TestJD)}
Policies == {DefaultPolicy, PenaltyPolicy, UnsetPolicy}
PolicyArgs == {None} \cup {Some(p) : p \in Policies}

\* The evaluations of the first two catalog entries, as the pipeline makes them.
SampleEvaluations ==
    evaluate_block(DefaultThresholds, research_block(BASE_PROFILES, TestJD, 2).value).value

EvaluationLists ==
    { <<>>,
      SampleEvaluations,
      [SampleEvaluations EXCEPT ![1].defect = "bias_flags"],   \* bias_flags=iter([...])
      [SampleEvaluations EXCEPT ![2].defect = "score"],        \* score=None
      [SampleEvaluations EXCEPT ![1].defect = "rationale"] }   \* rationale=None
EvaluationArgs == {None} \cup {Some(e) : e \in EvaluationLists}

SampleRanked == recommend_block(SampleEvaluations, DefaultPolicy).value

CandidateLists ==
    { <<>>,
      SubSeq(SampleRanked, 1, 1),
      [SampleRanked EXCEPT ![1].defect = "rationale"] }
CandidateArgs == {None} \cup {Some(c) : c \in CandidateLists}

-----------------------------------------------------------------------------
(* RecruitmentCrew *)

\* _normalize_job_description
normalize_job_description(jd_data) ==
    IF jd_data.given THEN jd_data.value ELSE DefaultJD

Call(op, args, status, result, exc, stage) ==
    [op |-> op, args |-> args, status |-> status, result |-> result,
     exc |-> exc, stage |-> stage]

NoArgs == [evaluations |-> None, policy |-> None, candidates |-> None, roster |-> <<>>]

\* Constructor arguments: RecruitmentCrew(jd_data, policy, candidate_pool,
\* evaluator_bias_thresholds)
CrewArgs ==
    { [jd_data |-> None, policy |-> None,
       candidate_pool |-> BASE_PROFILES, bias_thresholds |-> EmptyThresholds],
      [jd_data |-> Some(SeedJD), policy |-> Some(PenaltyPolicy),
       candidate_pool |-> BASE_PROFILES, bias_thresholds |-> OverrideWithDefault],
      [jd_data |-> None, policy |-> None,
       candidate_pool |-> IncompletePool, bias_thresholds |-> EmptyThresholds],
      [jd_data |-> Some(SeedJD), policy |-> None,
       candidate_pool |-> BASE_PROFILES, bias_thresholds |-> OverrideOnly] }

CrewInit(a) ==
    /\ policy = IF a.policy.given THEN a.policy.value ELSE DefaultPolicy
    /\ active_policy = policy
    /\ latest_candidates = <<>>
    /\ latest_evaluations = <<>>
    /\ risk_history = <<>>
    /\ job_description = normalize_job_description(a.jd_data)
    /\ candidate_pool = a.candidate_pool
    /\ bias_thresholds = EvaluatorThresholds(a.bias_thresholds)
    /\ last = Call("init", NoArgs, "returned", <<>>, <<>>, "none")

\* A crew on its own: no store, no API, no call under way, nothing logged.
NoService ==
    /\ campaigns = <<>>
    /\ audit_logs = <<>>
    /\ lock = "free"
    /\ background_tasks = <<>>
    /\ response = [endpoint |-> "none", status_code |-> 0]
    /\ threads = <<>>
    /\ events = <<>>

ServiceUnchanged == UNCHANGED servicevars

Init == NoService /\ \E a \in CrewArgs : CrewInit(a)

\* A faulty _record_state: the evaluation snapshot is left as it was.
record_state_keeps_evaluations(candidates, evaluations, risk) ==
    /\ latest_candidates' = candidates
    /\ latest_evaluations' = latest_evaluations
    /\ risk_history' = Append(risk_history, risk)

\* A faulty _record_state: the history is replaced, not extended.
record_state_overwrites(candidates, evaluations, risk) ==
    /\ latest_candidates' = candidates
    /\ latest_evaluations' = evaluations
    /\ risk_history' = <<risk>>

\* _record_state
record_state(candidates, evaluations, risk) ==
    /\ latest_candidates' = candidates
    /\ latest_evaluations' = evaluations
    /\ risk_history' = Append(risk_history, risk)

\* The block under "with self.tracer.trace('run_campaign')": the stages in
\* order, the first exception ending it.  "stage" is the stage that raised.
Stopped(stage, outcome) ==
    [ok |-> FALSE, exc |-> outcome.exc, stage |-> stage,
     ranked |-> <<>>, evaluations |-> <<>>, risk |-> <<>>]

run_campaign_block(payload, limit) ==
    LET seeds == research(candidate_pool, payload, limit) IN
    IF ~seeds.ok THEN Stopped("research", seeds) ELSE
    LET evaluations == evaluate(bias_thresholds, seeds.value) IN
    IF ~evaluations.ok THEN Stopped("evaluate", evaluations) ELSE
    LET ranked == recommend(evaluations.value, policy) IN
    IF ~ranked.ok THEN Stopped("recommend", ranked) ELSE
    LET risk == assess_risk(evaluations.value) IN
    IF ~risk.ok THEN Stopped("risk", risk) ELSE
    [ok |-> TRUE, exc |-> <<>>, stage |-> "none",
     ranked |-> ranked.value, evaluations |-> evaluations.value, risk |-> risk.value]

\* A faulty run_campaign: the evaluations are stored before ranking.
run_campaign_commits_early(jd_arg, limit) ==
    LET payload == IF jd_arg.given THEN jd_arg.value ELSE job_description
        block == run_campaign_block(payload, limit)
        out == trace("crew", "run_campaign", block)
    IN  /\ Len(risk_history) < MaxHistory
        /\ active_policy' = IF block.stage \in {"research", "evaluate"}
                            THEN active_policy ELSE policy
        /\ IF block.ok
           THEN record_state(block.ranked, block.evaluations, block.risk)
           ELSE /\ latest_evaluations' =
                      IF block.stage = "recommend"
                      THEN evaluate(bias_thresholds,
                                    research(candidate_pool, payload, limit).value).value
                      ELSE latest_evaluations
                /\ UNCHANGED <<latest_candidates, risk_history>>
        /\ last' = Call("run_campaign", NoArgs,
                        IF out.ok THEN "returned" ELSE "raised",
                        block.ranked, out.exc, block.stage)
        /\ UNCHANGED <<policy, job_description, candidate_pool, bias_thresholds>>

run_campaign(jd_arg, limit) ==
    LET payload == IF jd_arg.given THEN jd_arg.value ELSE job_description
        block == run_campaign_block(payload, limit)
        out == trace("crew", "run_campaign", block)
    IN  /\ Len(risk_history) < MaxHistory
        \* recommend() applies the policy to the recommender before its block runs
        /\ active_policy' = IF block.stage \in {"research", "evaluate"}
                            THEN active_policy ELSE policy
        /\ IF block.ok
           THEN record_state(block.ranked, block.evaluations, block.risk)
           ELSE UNCHANGED <<latest_candidates, latest_evaluations, risk_history>>
        /\ last' = Call("run_campaign", NoArgs,
                        IF out.ok THEN "returned" ELSE "raised",
                        block.ranked, out.exc, block.stage)
        /\ UNCHANGED <<policy, job_description, candidate_pool, bias_thresholds>>

\* source = evaluations or self.latest_evaluations
rerank_source(evaluations_arg) ==
    IF evaluations_arg.given /\ evaluations_arg.value # <<>>
    THEN evaluations_arg.value
    ELSE latest_evaluations

RerankArgs(evaluations_arg, policy_arg) ==
    [evaluations |-> evaluations_arg, policy |-> policy_arg, candidates |-> None,
     roster |-> <<>>]

\* A faulty early return: the policy is applied before the source is checked.
rerank_applies_policy_first(evaluations_arg, policy_arg) ==
    /\ rerank_source(evaluations_arg) = <<>>
    /\ policy' = IF policy_arg.given THEN policy_arg.value ELSE policy
    /\ active_policy' = policy'
    /\ last' = Call("rerank", RerankArgs(evaluations_arg, policy_arg),
                    "returned", <<>>, <<>>, "none")
    /\ UNCHANGED <<latest_candidates, latest_evaluations,
                   risk_history, job_description, candidate_pool, bias_thresholds>>

\* "if not source": the warning and the early return
rerank_without_source(evaluations_arg, policy_arg) ==
    /\ rerank_source(evaluations_arg) = <<>>
    /\ last' = Call("rerank", RerankArgs(evaluations_arg, policy_arg),
                    "returned", <<>>, <<>>, "none")
    /\ UNCHANGED <<policy, active_policy, latest_candidates, latest_evaluations,
                   risk_history, job_description, candidate_pool, bias_thresholds>>

\* The rest of rerank: the policy is set, then recommend and assess_risk run
\* with no trace boundary of the crew around them.
rerank_with_source(evaluations_arg, policy_arg) ==
    LET source == rerank_source(evaluations_arg)
        active == IF policy_arg.given THEN policy_arg.value ELSE policy
        ranked == recommend(source, active)
        risk == assess_risk(source)
        args == RerankArgs(evaluations_arg, policy_arg)
    IN  /\ source # <<>>
        /\ Len(risk_history) < MaxHistory
        /\ policy' = active
        /\ active_policy' = active
        /\ IF ~ranked.ok
           THEN /\ last' = Call("rerank", args, "raised", <<>>, ranked.exc, "recommend")
                /\ UNCHANGED <<latest_candidates, latest_evaluations, risk_history>>
           ELSE IF ~risk.ok
           THEN /\ last' = Call("rerank", args, "raised", <<>>, risk.exc, "risk")
                /\ UNCHANGED <<latest_candidates, latest_evaluations, risk_history>>
           ELSE /\ last' = Call("rerank", args, "returned", ranked.value, <<>>, "none")
                /\ record_state(ranked.value, source, risk.value)
        /\ UNCHANGED <<job_description, candidate_pool, bias_thresholds>>

rerank(evaluations_arg, policy_arg) ==
    \/ rerank_without_source(evaluations_arg, policy_arg)
    \/ rerank_with_source(evaluations_arg, policy_arg)

\* roster = candidates or self.latest_candidates
outreach_roster(candidates_arg) ==
    IF candidates_arg.given /\ candidates_arg.value # <<>>
    THEN candidates_arg.value
    ELSE latest_candidates

\* [self.writer.draft(...) for candidate in roster]: the first draft that
\* raises ends the comprehension and no list is built.
draft_all(campaign_id, roster, template) ==
    LET drafts == [i \in DOMAIN roster |-> draft(campaign_id, roster[i], template)]
        failed == {i \in DOMAIN roster : ~drafts[i].ok}
    IN  IF failed = {}
        THEN Return([i \in DOMAIN roster |-> drafts[i].value])
        ELSE Raise(drafts[CHOOSE i \in failed : \A j \in failed : i <= j].exc)

generate_outreach(campaign_id, candidates_arg, template_arg) ==
    LET roster == outreach_roster(candidates_arg)
        template == IF template_arg.given THEN template_arg.value ELSE "default"
        out == IF roster = <<>> THEN Return(<<>>) ELSE draft_all(campaign_id, roster, template)
        args == [evaluations |-> None, policy |-> None, candidates |-> candidates_arg,
                 roster |-> roster]
    IN  /\ last' = Call("generate_outreach", args,
                        IF out.ok THEN "returned" ELSE "raised",
                        out.value, out.exc, IF out.ok THEN "none" ELSE "draft")
        /\ UNCHANGED <<policy, active_policy, latest_candidates, latest_evaluations,
                       risk_history, job_description, candidate_pool, bias_thresholds>>

Next ==
    \/ \E jd_arg \in JobDescriptionArgs, limit \in Limits :
          run_campaign(jd_arg, limit) /\ ServiceUnchanged
    \/ \E evaluations_arg \in EvaluationArgs, policy_arg \in PolicyArgs :
          rerank(evaluations_arg, policy_arg) /\ ServiceUnchanged
    \/ \E candidates_arg \in CandidateArgs, template_arg \in {None, Some("custom")} :
          generate_outreach("CAMP_001", candidates_arg, template_arg) /\ ServiceUnchanged

Spec == Init /\ [][Next]_vars


-----------------------------------------------------------------------------
(* The agents called directly, stage by stage: research, then evaluate on
   its seeds, then recommend and assess_risk on the evaluations.  The crew's
   own attributes are left alone; "last" holds the call and what it gave. *)

MaxLimit == 5

AgentLimits == (0 - MaxLimit) .. MaxLimit

\* Job descriptions: two share a title and differ in content, one has no
\* content, one has content long enough to reach the research cap.
AgentJDs ==
    { DefaultJD, TestJD,
      JobDescriptionModel("Senior Python Engineer", 0),
      JobDescriptionModel("AI Platform Engineer", 400) }

\* Caller-supplied catalogs: the baseline score of the first record varies,
\* its tags repeat, and the names come in another order than in BASE_PROFILES.
BaselineScores == {0 - 5000, 0, 6500, 9400, 12000}

CustomPool(score) ==
    << Profile("Nia Vector", "Backend Engineer", score,
               <<"Data Deficient", "Data Deficient">>),
       Profile("Alex Dev", "Platform Architect", 6125, <<"Manual Review Required">>) >>

AgentPools == {BASE_PROFILES, IncompletePool} \cup {CustomPool(b) : b \in BaselineScores}

AgentArgs ==
    { [jd_data |-> None, policy |-> None, candidate_pool |-> pool, bias_thresholds |-> b] :
        pool \in AgentPools, b \in {EmptyThresholds, OverrideWithDefault, OverrideOnly} }

AgentInit == NoService /\ \E a \in AgentArgs : CrewInit(a)

Outcome(op, args, out) ==
    Call(op, args, IF out.ok THEN "returned" ELSE "raised", out.value, out.exc,
         IF out.ok THEN "none" ELSE op)

CrewUnchanged ==
    UNCHANGED <<policy, latest_candidates, latest_evaluations, risk_history,
                job_description, candidate_pool, bias_thresholds>>

\* researcher.research(job_description, limit)
research_call(jd, limit) ==
    /\ last.op = "init"
    /\ last' = Outcome("research", [job_description |-> jd, limit |-> limit],
                       research(candidate_pool, jd, limit))
    /\ UNCHANGED active_policy
    /\ CrewUnchanged

\* evaluator.evaluate(seeds), on the seeds research returned
evaluate_call ==
    /\ last.op = "research" /\ last.status = "returned"
    /\ last' = Outcome("evaluate", [seeds |-> last.result],
                       evaluate(bias_thresholds, last.result))
    /\ UNCHANGED active_policy
    /\ CrewUnchanged

\* recommender.recommend(evaluations, policy), on the evaluations evaluate returned
recommend_call(pol) ==
    /\ last.op = "evaluate" /\ last.status = "returned"
    /\ last' = Outcome("recommend",
                       [seeds |-> last.args.seeds, evaluations |-> last.result,
                        policy |-> pol],
                       recommend(last.result, pol))
    /\ active_policy' = pol
    /\ CrewUnchanged

\* crew.assess_risk(evaluations), on the evaluations evaluate returned
assess_risk_call ==
    /\ last.op = "evaluate" /\ last.status = "returned"
    /\ last' = Outcome("assess_risk", [evaluations |-> last.result],
                       assess_risk(last.result))
    /\ UNCHANGED active_policy
    /\ CrewUnchanged

AgentNext ==
    \/ \E jd \in AgentJDs, limit \in AgentLimits :
          research_call(jd, limit) /\ ServiceUnchanged
    \/ evaluate_call /\ ServiceUnchanged
    \/ \E pol \in Policies : recommend_call(pol) /\ ServiceUnchanged
    \/ assess_risk_call /\ ServiceUnchanged

AgentSpec == AgentInit /\ [][AgentNext]_vars

-----------------------------------------------------------------------------
(* WriterAgent.draft, character by character: a text is a sequence of
   one-character strings, so that escaping is computed and not assumed. *)

MaxTextLen == 2

\* The characters html.escape rewrites, and a letter that lower() changes.
Chars == {"A", "&", "<", ">", "\"", "'"}

Texts == UNION {[1 .. n -> Chars] : n \in 0 .. MaxTextLen}

\* str.replace(old, new) for a one-character old.
RECURSIVE replace(_, _, _)
replace(value, old, new) ==
    IF value = <<>> THEN <<>>
    ELSE (IF Head(value) = old THEN new ELSE <<Head(value)>>)
             \o replace(Tail(value), old, new)

\* A faulty escape: html.escape(value, quote=False) leaves both quote characters.
html_escape_unquoted(value) ==
    replace(replace(replace(value, "&", <<"&", "a", "m", "p", ";">>),
                    "<", <<"&", "l", "t", ";">>),
            ">", <<"&", "g", "t", ";">>)

\* html.escape(value): "&" first, then "<", ">", and with quote=True (the
\* default) the double and the single quote.
html_escape(value) ==
    replace(replace(replace(replace(replace(value,
        "&", <<"&", "a", "m", "p", ";">>),
        "<", <<"&", "l", "t", ";">>),
        ">", <<"&", "g", "t", ";">>),
        "\"", <<"&", "q", "u", "o", "t", ";">>),
        "'", <<"&", "#", "x", "2", "7", ";">>)

\* WriterAgent._sanitize
sanitize(value) == html_escape(value)

\* str.lower() on the characters of Chars.
lower(value) == [i \in DOMAIN value |-> IF value[i] = "A" THEN "a" ELSE value[i]]

\* The message of draft: the fixed text of the f-string around the six
\* sanitized fields; the rationale is lower-cased before it is sanitized.
draft_message(candidate, template) ==
    LET safe_name == sanitize(candidate.name)
        safe_role == sanitize(candidate.role)
        safe_rationale == sanitize(lower(candidate.rationale))
        safe_cta == sanitize(template.cta)
        safe_compliance == sanitize(template.compliance_notes)
        safe_eu_statement == sanitize(template.eu_ai_statement)
    IN  <<"H", "i", " ">> \o safe_name \o <<",", "\n", "\n">>
        \o <<"I", " ", "s", "a", "w", " ", "y", "o", "u", "r", " ", "w", "o", "r",
           "k", " ", "a", "s", " ", "a", " ">>
        \o safe_role
        \o <<" ", "a", "n", "d", " ", "t", "h", "e", " ", "w", "a", "y", " ", "y",
           "o", "u", " ">> \o safe_rationale \o <<"\n">>
        \o safe_compliance \o <<" ">> \o safe_eu_statement \o <<"\n">>
        \o safe_cta \o <<".", "\n", "\n">>
        \o <<"B", "e", "s", "t", ",", "\n", "R", "e", "c", "r", "u", "i", "t",
           "m", "e", "n", "t", " ", "A", "s", "s", "i", "s", "t", "a", "n", "t",
           " ", "C", "r", "e", "w">>

\* writer.draft(campaign_id, candidate, template) for a candidate whose name,
\* role and rationale are candidate_text and a template whose call-to-action,
\* compliance note and regulatory statement are template_text.
draft_call(candidate_text, template_text) ==
    LET candidate == [candidate_id |-> stable_candidate_id("Alex Dev", "Talent Search"),
                      name |-> candidate_text, role |-> candidate_text,
                      rationale |-> candidate_text]
        template == [cta |-> template_text, compliance_notes |-> template_text,
                     eu_ai_statement |-> template_text]
        block == Return([campaign_id |-> "CMP-1",
                         candidate_id |-> candidate.candidate_id,
                         message |-> draft_message(candidate, template),
                         template |-> template])
    IN  /\ last' = Outcome("draft", [candidate |-> candidate, template |-> template],
                           trace("writer", "draft", block))
        /\ UNCHANGED active_policy
        /\ CrewUnchanged

WriterInit ==
    /\ NoService
    /\ CrewInit([jd_data |-> None, policy |-> None,
                 candidate_pool |-> BASE_PROFILES,
                 bias_thresholds |-> EmptyThresholds])

\* The writer keeps nothing between drafts: one draft per behaviour shows them all.
WriterNext ==
    /\ last.op = "init"
    /\ \E candidate_text \in Texts, template_text \in Texts :
          draft_call(candidate_text, template_text)
    /\ ServiceUnchanged

WriterSpec == WriterInit /\ [][WriterNext]_vars

-----------------------------------------------------------------------------
(* CampaignStore: the campaign map and the audit log.  An operation is given
   the map and the log and gives back both, with what it returns. *)

\* f"CAMP_{n:03d}"
CampaignId(n) ==
    CASE n = 1 -> "CAMP_001" [] n = 2 -> "CAMP_002" [] n = 3 -> "CAMP_003"
      [] n = 4 -> "CAMP_004" [] n = 5 -> "CAMP_005" [] n = 6 -> "CAMP_006"
      [] n = 7 -> "CAMP_007" [] n = 8 -> "CAMP_008" [] n = 9 -> "CAMP_009"

\* _next_id: one more than the number of campaigns stored now.
next_id(cs) == CampaignId(Cardinality(DOMAIN cs) + 1)

CampaignRecord(campaign_id, title, status, candidates, evaluations, metrics) ==
    [campaign_id |-> campaign_id, title |-> title, status |-> status,
     candidates |-> candidates, evaluations |-> evaluations,
     outreach_drafts |-> <<>>, metrics |-> metrics]

AuditEntry(campaign_id, action, details) ==
    [campaign_id |-> campaign_id, action |-> action, details |-> details]

StoreResult(cs, logs, result) == [campaigns |-> cs, audit_logs |-> logs, result |-> result]

\* self._campaigns[campaign_id] = record
Put(cs, campaign_id, record) ==
    [k \in DOMAIN cs \cup {campaign_id} |-> IF k = campaign_id THEN record ELSE cs[k]]

\* del self._campaigns[campaign_id]
Del(cs, campaign_id) == [k \in DOMAIN cs \ {campaign_id} |-> cs[k]]

\* CampaignStore._build_metrics: the flags are counted on the candidates.
store_build_metrics(candidates) ==
    LET bias_checks == SumSeq([i \in DOMAIN candidates |-> Len(candidates[i].bias_flags)]) IN
    [total_candidates |-> Len(candidates),
     bias_checks |-> bias_checks,
     bias_checks_passed |-> bias_checks = 0,
     data_deficient_count |->
        Cardinality({i \in DOMAIN candidates : Contains(candidates[i].tags, "Data Deficient")})]

\* _populate_seed_campaign: a crew of its own runs the seed job description;
\* the ranked candidates are stored with their bias flags removed.
seed_evaluations ==
    evaluate(DefaultThresholds, research(BASE_PROFILES, SeedJD, 4).value).value

seed_candidates ==
    LET ranked == recommend(seed_evaluations, DefaultPolicy).value
    IN  [i \in DOMAIN ranked |-> [ranked[i] EXCEPT !.bias_flags = <<>>]]

populate_seed_campaign ==
    LET record == CampaignRecord("CAMP_001", "Sample Campaign", "created",
                                 seed_candidates, seed_evaluations,
                                 store_build_metrics(seed_candidates))
    IN  StoreResult(Put(<<>>, "CAMP_001", record),
                    <<AuditEntry("CAMP_001", "campaign_seeded", "Sample Campaign")>>,
                    record)

\* create_campaign, the part under the lock
store_create_campaign(cs, logs, title, candidates, evaluations, metrics) ==
    LET campaign_id == next_id(cs)
        record == CampaignRecord(campaign_id, title, "initialized",
                                 candidates, evaluations, metrics)
    IN  StoreResult(Put(cs, campaign_id, record),
                    Append(logs, AuditEntry(campaign_id, "campaign_created", "initialized")),
                    record)

\* update_status, for a status CampaignStatus knows
store_update_status(cs, logs, campaign_id, status) ==
    IF campaign_id \in DOMAIN cs
    THEN StoreResult([cs EXCEPT ![campaign_id].status = status],
                     Append(logs, AuditEntry(campaign_id, "status_update", status)),
                     "None")
    ELSE StoreResult(cs, logs, "None")

\* update_candidates
store_update_candidates(cs, logs, campaign_id, candidates, evaluations, metrics) ==
    IF campaign_id \in DOMAIN cs
    THEN LET record == [cs[campaign_id] EXCEPT !.candidates = candidates,
                                               !.evaluations = evaluations,
                                               !.metrics = metrics,
                                               !.status = "ranked"]
         IN  StoreResult(Put(cs, campaign_id, record), logs, record)
    ELSE StoreResult(cs, logs, "None")

\* add_outreach_drafts
store_add_outreach_drafts(cs, logs, campaign_id, drafts) ==
    IF campaign_id \in DOMAIN cs
    THEN StoreResult([cs EXCEPT ![campaign_id].outreach_drafts = drafts], logs, drafts)
    ELSE StoreResult(cs, logs, "None")

\* record_audit
store_record_audit(cs, logs, campaign_id, action, details) ==
    StoreResult(cs, Append(logs, AuditEntry(campaign_id, action, details)), "None")

\* purge_campaign
store_purge_campaign(cs, logs, campaign_id) ==
    IF campaign_id \in DOMAIN cs
    THEN StoreResult(Del(cs, campaign_id),
                     Append(logs, AuditEntry(campaign_id, "campaign_purged", "purged")),
                     TRUE)
    ELSE StoreResult(cs, logs, FALSE)

-----------------------------------------------------------------------------
(* The API: the handlers of main.py on the module-level crew and store,
   one request after the other. *)

MaxAudit == 4

\* uuid4().hex[:6]: two of the 16^6 values a draft id can take.
DraftIds == {"DRAFT-3F9A1C", "DRAFT-B07E52"}

\* A request body for POST /campaigns.  The lengths are those of the text
\* without its surrounding whitespace; the pads count that whitespace.
CampaignCreateRequest(title, title_len, title_pad, content_len, content_pad, description_len) ==
    [title |-> title, title_len |-> title_len, title_pad |-> title_pad,
     content_len |-> content_len, content_pad |-> content_pad,
     description_len |-> description_len]

CreateRequests ==
    { CampaignCreateRequest("AI Platform Engineer", 20, 0, 64, 0, 20),
      CampaignCreateRequest("Senior Python Engineer", 22, 0, 19, 0, 20),
      CampaignCreateRequest("SE", 2, 0, 9, 0, 20),
      CampaignCreateRequest("SE", 2, 4, 64, 0, 20),
      CampaignCreateRequest("", 0, 0, 64, 0, 20),
      CampaignCreateRequest("AI Platform Engineer", 20, 0, 0, 25, 20) }

RequestIds == {"CAMP_001", "CAMP_002"}

RankRequests ==
    { [strategy |-> "balanced", limit |-> 0],     \* limit None
      [strategy |-> "diversity", limit |-> 1] }

Response(endpoint, request, status_code, detail, body) ==
    [endpoint |-> endpoint, request |-> request, status_code |-> status_code,
     detail |-> detail, body |-> body]

\* CampaignCreateRequest: Field(min_length=1) on title and description; a
\* body that fails it is answered 422 and the handler is not called.
request_model_valid(payload) ==
    payload.title_len + payload.title_pad >= 1 /\ payload.description_len >= 1

\* A faulty _validate_jd: the content is not looked at.
validate_jd_title_only(payload) ==
    IF payload.title_len < 5 THEN "Invalid JD Title" ELSE "ok"

\* _validate_jd: the detail of the HTTPException(400), or "ok"
validate_jd(payload) ==
    IF payload.title_len < 5 THEN "Invalid JD Title"
    ELSE IF payload.content_len < 20 THEN "Invalid JD content"
    ELSE "ok"

\* build_metrics of main.py: the flags are counted on the evaluations.
build_metrics(ranked, evaluations) ==
    LET bias_checks == SumSeq([i \in DOMAIN evaluations |-> Len(evaluations[i].bias_flags)]) IN
    [total_candidates |-> Len(ranked),
     bias_checks |-> bias_checks,
     bias_checks_passed |-> bias_checks = 0,
     data_deficient_count |->
        Cardinality({i \in DOMAIN ranked : Contains(ranked[i].tags, "Data Deficient")})]

StoreUnchanged == UNCHANGED <<campaigns, audit_logs>>

Idle == UNCHANGED <<lock, threads, events>>

\* The request is answered and neither the crew nor the store is touched.
Answer(endpoint, request, status_code, detail, body) ==
    /\ response' = Response(endpoint, request, status_code, detail, body)
    /\ UNCHANGED crewvars
    /\ StoreUnchanged
    /\ UNCHANGED background_tasks

AuditRoom(n) == Len(audit_logs) + Len(background_tasks) + n <= MaxAudit

\* _persist_campaign, once the crew has run
persist_campaign(payload) ==
    IF last'.status # "returned"
    THEN /\ response' = Response("create_campaign", payload, 500, "run_campaign", "None")
         /\ StoreUnchanged
    ELSE LET metrics == build_metrics(latest_candidates', latest_evaluations')
             created == store_create_campaign(campaigns, audit_logs, payload.title,
                                              latest_candidates', latest_evaluations',
                                              metrics)
             audited == store_record_audit(created.campaigns, created.audit_logs,
                                           created.result.campaign_id,
                                           "campaign_initialized", payload.title)
         IN  /\ campaigns' = audited.campaigns
             /\ audit_logs' = audited.audit_logs
             /\ response' = Response("create_campaign", payload, 200, "ok",
                                     [campaign_id |-> created.result.campaign_id,
                                      status |-> created.result.status])

\* POST /campaigns
api_create_campaign(payload) ==
    /\ Idle
    /\ IF ~request_model_valid(payload)
       THEN Answer("create_campaign", payload, 422, "validation", "None")
       ELSE IF validate_jd(payload) # "ok"
       THEN Answer("create_campaign", payload, 400, validate_jd(payload), "None")
       ELSE /\ AuditRoom(2)
            /\ run_campaign(Some(JobDescriptionModel(payload.title,
                                     payload.content_len + payload.content_pad)), 4)
            /\ persist_campaign(payload)
            /\ UNCHANGED background_tasks

\* GET /campaigns/{campaign_id}/status
api_campaign_status(campaign_id) ==
    /\ Idle
    /\ IF campaign_id \notin DOMAIN campaigns
       THEN Answer("campaign_status", campaign_id, 404, "Campaign not found", "None")
       ELSE LET campaign == campaigns[campaign_id] IN
            Answer("campaign_status", campaign_id, 200, "ok",
                   [campaign_id |-> campaign.campaign_id,
                    status |-> campaign.status,
                    total_candidates |-> Len(campaign.candidates),
                    phase |-> IF campaign.candidates # <<>> THEN "ranking"
                              ELSE "initializing"])

\* rank_candidates, once the crew has re-ranked
persist_ranking(campaign_id, payload) ==
    IF last'.status # "returned"
    THEN /\ response' = Response("rank_candidates", campaign_id, 500, "rerank", "None")
         /\ StoreUnchanged
    ELSE LET campaign == campaigns[campaign_id]
             ranked == IF payload.limit > 0
                       THEN SliceTo(last'.result, payload.limit)
                       ELSE last'.result
             metrics == build_metrics(ranked, campaign.evaluations)
             updated == store_update_candidates(campaigns, audit_logs, campaign_id,
                                                ranked, campaign.evaluations, metrics)
             audited == store_record_audit(updated.campaigns, updated.audit_logs,
                                           campaign_id, "ranking_updated",
                                           payload.strategy)
         IN  /\ campaigns' = audited.campaigns
             /\ audit_logs' = audited.audit_logs
             /\ response' = Response("rank_candidates", campaign_id, 200, "ok",
                                     [campaign_id |-> campaign_id,
                                      ranked_candidates |->
                                         [i \in DOMAIN ranked |-> ranked[i].candidate_id]])

\* POST /campaigns/{campaign_id}/rank
api_rank_candidates(campaign_id, payload) ==
    /\ Idle
    /\ IF campaign_id \notin DOMAIN campaigns
       THEN Answer("rank_candidates", campaign_id, 404, "Campaign not found", "None")
       ELSE IF campaigns[campaign_id].evaluations = <<>>
       THEN Answer("rank_candidates", campaign_id, 400, "No evaluations available for ranking", "None")
       ELSE /\ AuditRoom(1)
            /\ rerank(Some(campaigns[campaign_id].evaluations),
                      Some(RankingPolicy(payload.strategy, DefaultDiversityBonus)))
            /\ persist_ranking(campaign_id, payload)
            /\ UNCHANGED background_tasks

\* OutreachDraft.draft_id: every draft is given an id of its own drawing.
with_draft_ids(drafts, ids) ==
    [i \in DOMAIN drafts |->
        [campaign_id |-> drafts[i].campaign_id, candidate_id |-> drafts[i].candidate_id,
         template |-> drafts[i].template, draft_id |-> ids[i]]]

\* generate_outreach of main.py, once the crew has drafted
persist_drafts(campaign_id) ==
    IF last'.status # "returned"
    THEN /\ response' = Response("generate_outreach", campaign_id, 500, "generate_outreach", "None")
         /\ StoreUnchanged
    ELSE \E ids \in [DOMAIN last'.result -> DraftIds] :
            LET drafts == with_draft_ids(last'.result, ids)
                added == store_add_outreach_drafts(campaigns, audit_logs, campaign_id, drafts)
                audited == store_record_audit(added.campaigns, added.audit_logs,
                                              campaign_id, "outreach_generated",
                                              Len(drafts))
            IN  /\ campaigns' = audited.campaigns
                /\ audit_logs' = audited.audit_logs
                /\ response' = Response("generate_outreach", campaign_id, 200, "ok",
                                        [campaign_id |-> campaign_id, drafts |-> drafts])

\* POST /campaigns/{campaign_id}/outreach
api_generate_outreach(campaign_id) ==
    /\ Idle
    /\ IF campaign_id \notin DOMAIN campaigns
       THEN Answer("generate_outreach", campaign_id, 404, "Campaign not found", "None")
       ELSE /\ AuditRoom(1)
            /\ generate_outreach(campaign_id, Some(campaigns[campaign_id].candidates),
                                 Some("api"))
            /\ persist_drafts(campaign_id)
            /\ UNCHANGED background_tasks

\* POST /outreach/send: the audit entry is left to a background task.
api_send_outreach(campaign_id, candidate_id) ==
    /\ Idle
    /\ IF campaign_id \notin DOMAIN campaigns
       THEN Answer("send_outreach", campaign_id, 404, "Campaign not found", "None")
       ELSE /\ AuditRoom(1)
            /\ background_tasks' =
                  Append(background_tasks, AuditEntry(campaign_id, "outreach_sent", candidate_id))
            /\ response' = Response("send_outreach", campaign_id, 200, "queued", candidate_id)
            /\ UNCHANGED crewvars
            /\ StoreUnchanged

\* The queued store.record_audit runs after the response has been sent.
run_background_task ==
    /\ Idle
    /\ background_tasks # <<>>
    /\ LET task == Head(background_tasks)
           audited == store_record_audit(campaigns, audit_logs, task.campaign_id,
                                         task.action, task.details)
       IN  /\ audit_logs' = audited.audit_logs
           /\ campaigns' = audited.campaigns
    /\ background_tasks' = Tail(background_tasks)
    /\ UNCHANGED crewvars
    /\ UNCHANGED response

\* DELETE /campaigns/{campaign_id}
api_purge_campaign(campaign_id) ==
    /\ Idle
    /\ LET purged == store_purge_campaign(campaigns, audit_logs, campaign_id) IN
       IF purged.result
       THEN /\ AuditRoom(1)
            /\ campaigns' = purged.campaigns
            /\ audit_logs' = purged.audit_logs
            /\ response' = Response("purge_campaign", campaign_id, 200, "purged", campaign_id)
            /\ UNCHANGED crewvars
            /\ UNCHANGED background_tasks
       ELSE Answer("purge_campaign", campaign_id, 404, "Campaign not found", "None")

\* crew = RecruitmentCrew(); store = CampaignStore()
ApiInit ==
    /\ CrewInit([jd_data |-> None, policy |-> None,
                 candidate_pool |-> BASE_PROFILES,
                 bias_thresholds |-> EmptyThresholds])
    /\ campaigns = populate_seed_campaign.campaigns
    /\ audit_logs = populate_seed_campaign.audit_logs
    /\ lock = "free"
    /\ background_tasks = <<>>
    /\ response = [endpoint |-> "none", status_code |-> 0]
    /\ threads = <<>>
    /\ events = <<>>

ApiNext ==
    \/ \E payload \in CreateRequests : api_create_campaign(payload)
    \/ \E campaign_id \in RequestIds : api_campaign_status(campaign_id)
    \/ \E campaign_id \in RequestIds, payload \in RankRequests :
          api_rank_candidates(campaign_id, payload)
    \/ \E campaign_id \in RequestIds : api_generate_outreach(campaign_id)
    \/ \E campaign_id \in RequestIds :
          api_send_outreach(campaign_id, stable_candidate_id("Alex Dev", "AI Platform Engineer"))
    \/ run_background_task
    \/ \E campaign_id \in RequestIds : api_purge_campaign(campaign_id)

ApiSpec == ApiInit /\ [][ApiNext]_vars

-----------------------------------------------------------------------------
(* The campaign store under concurrent callers: every call is a thread that
   takes the steps of its method, and the steps of different threads
   interleave.  "with self._lock" is an acquire step before the body and a
   release step after it; record_audit has neither. *)

Threads == {"t1", "t2"}

CampaignStatuses == {"created", "initialized", "running", "ranked", "purged"}

StoreRequest(op, campaign_id, value) == [op |-> op, campaign_id |-> campaign_id, value |-> value]

StoreRequests ==
    {StoreRequest("create_campaign", "none", title) :
        title \in {"Backend hiring", "Platform hiring"}}
    \cup {StoreRequest(op, campaign_id, "none") :
            op \in {"update_candidates", "add_outreach_drafts", "record_audit",
                    "purge_campaign"},
            campaign_id \in RequestIds}
    \cup {StoreRequest("update_status", campaign_id, status) :
            campaign_id \in RequestIds, status \in {"running", "archived"}}

IdleThread == [pc |-> "idle", request |-> "none", pending |-> <<>>, result |-> "none"]

\* What the body of a locked method does to the map and the log.
store_apply(cs, logs, request) ==
    CASE request.op = "create_campaign" ->
            store_create_campaign(cs, logs, request.value, <<>>, <<>>,
                                  store_build_metrics(<<>>))
      [] request.op = "update_status" ->
            \* _resolve_status raises ValueError for a status it does not know
            IF request.campaign_id \in DOMAIN cs /\ request.value \notin CampaignStatuses
            THEN StoreResult(cs, logs, "ValueError")
            ELSE store_update_status(cs, logs, request.campaign_id, request.value)
      [] request.op = "update_candidates" ->
            store_update_candidates(cs, logs, request.campaign_id, <<>>, <<>>,
                                    store_build_metrics(<<>>))
      [] request.op = "add_outreach_drafts" ->
            store_add_outreach_drafts(cs, logs, request.campaign_id, <<>>)
      [] request.op = "purge_campaign" ->
            store_purge_campaign(cs, logs, request.campaign_id)

InFlight == Cardinality({t \in Threads : threads[t].pc # "idle"})

StoreStep(t) ==
    /\ UNCHANGED crewvars
    /\ UNCHANGED <<background_tasks, response, events>>

\* A caller enters a method of the store.
store_call(t, request) ==
    /\ threads[t].pc = "idle"
    /\ Len(audit_logs) + InFlight < MaxAudit
    /\ threads' = [threads EXCEPT ![t] =
                      [pc |-> IF request.op = "record_audit" THEN "append" ELSE "acquire",
                       request |-> request, pending |-> <<>>, result |-> "none"]]
    /\ UNCHANGED <<campaigns, audit_logs, lock>>
    /\ StoreStep(t)

\* with self._lock: entered once the lock is free
store_acquire(t) ==
    /\ threads[t].pc = "acquire"
    /\ lock = "free"
    /\ lock' = t
    /\ threads' = [threads EXCEPT ![t].pc = "write"]
    /\ UNCHANGED <<campaigns, audit_logs>>
    /\ StoreStep(t)

\* The body's work on the campaign map; its audit entry comes in a later step.
store_write(t) ==
    /\ threads[t].pc = "write"
    /\ LET done == store_apply(campaigns, audit_logs, threads[t].request)
           entries == SubSeq(done.audit_logs, Len(audit_logs) + 1, Len(done.audit_logs))
       IN  /\ campaigns' = done.campaigns
           /\ threads' = [threads EXCEPT ![t].pc = IF entries = <<>> THEN "release" ELSE "log",
                                         ![t].pending = entries,
                                         ![t].result = done.result]
    /\ UNCHANGED <<audit_logs, lock>>
    /\ StoreStep(t)

\* self._audit_logs.append(...) inside the locked body
store_log(t) ==
    /\ threads[t].pc = "log"
    /\ audit_logs' = audit_logs \o threads[t].pending
    /\ threads' = [threads EXCEPT ![t].pc = "release", ![t].pending = <<>>]
    /\ UNCHANGED <<campaigns, lock>>
    /\ StoreStep(t)

\* Leaving the with block, by return or by exception
store_release(t) ==
    /\ threads[t].pc = "release"
    /\ lock' = "free"
    /\ threads' = [threads EXCEPT ![t].pc = "idle"]
    /\ UNCHANGED <<campaigns, audit_logs>>
    /\ StoreStep(t)

\* record_audit: the append, with no lock taken
store_audit_append(t) ==
    /\ threads[t].pc = "append"
    /\ audit_logs' = store_record_audit(campaigns, audit_logs,
                                        threads[t].request.campaign_id,
                                        "note", "none").audit_logs
    /\ threads' = [threads EXCEPT ![t].pc = "idle", ![t].result = "None"]
    /\ UNCHANGED <<campaigns, lock>>
    /\ StoreStep(t)

\* store = CampaignStore(), shared by the threads
StoreInit ==
    /\ CrewInit([jd_data |-> None, policy |-> None,
                 candidate_pool |-> BASE_PROFILES,
                 bias_thresholds |-> EmptyThresholds])
    /\ campaigns = populate_seed_campaign.campaigns
    /\ audit_logs = populate_seed_campaign.audit_logs
    /\ lock = "free"
    /\ background_tasks = <<>>
    /\ response = [endpoint |-> "none", status_code |-> 0]
    /\ threads = [t \in Threads |-> IdleThread]
    /\ events = <<>>

StoreNext ==
    \E t \in Threads :
        \/ \E request \in StoreRequests : store_call(t, request)
        \/ store_acquire(t)
        \/ store_write(t)
        \/ store_log(t)
        \/ store_release(t)
        \/ store_audit_append(t)

StoreSpec == StoreInit /\ [][StoreNext]_vars

-----------------------------------------------------------------------------
(* One crew shared by concurrent callers, as the module-level crew of the
   API is by its request threads: run_campaign and rerank step by step.
   _record_state is three statements, and a thread can be overtaken between
   any two of them. *)

CrewRequests ==
    { [op |-> "run_campaign", job_description |-> Some(SeedJD), limit |-> 4,
       evaluations |-> None, policy |-> None],
      [op |-> "rerank", job_description |-> None, limit |-> 4,
       evaluations |-> Some(SampleEvaluations),
       policy |-> Some(RankingPolicy("diversity", DefaultDiversityBonus))],
      [op |-> "rerank", job_description |-> None, limit |-> 4,
       evaluations |-> Some([SampleEvaluations EXCEPT ![2].defect = "score"]),
       policy |-> Some(PenaltyPolicy)],
      [op |-> "rerank", job_description |-> None, limit |-> 4,
       evaluations |-> None, policy |-> None] }

IdleCaller ==
    [pc |-> "idle", request |-> "none", status |-> "none",
     ranked |-> <<>>, evaluations |-> <<>>, risk |-> "none", policy |-> "none"]

Calling == Cardinality({t \in Threads : threads[t].pc # "idle"})

Returns(t, status) ==
    threads' = [threads EXCEPT ![t] = [IdleCaller EXCEPT !.status = status,
                                                        !.request = threads[t].request]]

CrewStep ==
    /\ UNCHANGED <<job_description, candidate_pool, bias_thresholds, last>>
    /\ UNCHANGED <<campaigns, audit_logs, lock, background_tasks, response, events>>

\* A caller enters run_campaign or rerank.
crew_call(t, request) ==
    /\ threads[t].pc = "idle"
    /\ Len(risk_history) + Calling < MaxHistory
    /\ threads' = [threads EXCEPT ![t] = [IdleCaller EXCEPT !.pc = "source",
                                                          !.request = request]]
    /\ UNCHANGED <<policy, active_policy, latest_candidates, latest_evaluations, risk_history>>
    /\ CrewStep

\* run_campaign: research and evaluate.  rerank: the source is chosen, the
\* early return taken, the policy set on the crew and on the recommender.
crew_source(t) ==
    /\ threads[t].pc = "source"
    /\ LET request == threads[t].request IN
       IF request.op = "run_campaign"
       THEN LET payload == IF request.job_description.given
                           THEN request.job_description.value ELSE job_description
                seeds == research(candidate_pool, payload, request.limit)
                evaluations == IF seeds.ok THEN evaluate(bias_thresholds, seeds.value)
                               ELSE seeds
            IN  /\ IF evaluations.ok
                   THEN threads' = [threads EXCEPT ![t].pc = "rank",
                                                   ![t].evaluations = evaluations.value]
                   ELSE Returns(t, "raised")
                /\ UNCHANGED <<policy, active_policy>>
       ELSE LET source == rerank_source(request.evaluations)
                active == IF request.policy.given THEN request.policy.value ELSE policy
            IN  IF source = <<>>
                THEN Returns(t, "returned") /\ UNCHANGED <<policy, active_policy>>
                ELSE /\ policy' = active
                     /\ active_policy' = active
                     /\ threads' = [threads EXCEPT ![t].pc = "rank",
                                                   ![t].evaluations = source,
                                                   ![t].policy = active]
    /\ UNCHANGED <<latest_candidates, latest_evaluations, risk_history>>
    /\ CrewStep

\* recommend, with self.policy as it is now (run_campaign) or with the
\* policy of the call (rerank), and assess_risk
crew_rank(t) ==
    /\ threads[t].pc = "rank"
    /\ LET pol == IF threads[t].request.op = "run_campaign" THEN policy
                  ELSE threads[t].policy
           ranked == recommend(threads[t].evaluations, pol)
           risk == assess_risk(threads[t].evaluations)
       IN  /\ active_policy' = pol
           /\ IF ranked.ok /\ risk.ok
              THEN threads' = [threads EXCEPT ![t].pc = "set_candidates",
                                              ![t].ranked = ranked.value,
                                              ![t].risk = risk.value]
              ELSE Returns(t, "raised")
    /\ UNCHANGED <<policy, latest_candidates, latest_evaluations, risk_history>>
    /\ CrewStep

\* _record_state: self.latest_candidates = candidates
record_candidates(t) ==
    /\ threads[t].pc = "set_candidates"
    /\ latest_candidates' = threads[t].ranked
    /\ threads' = [threads EXCEPT ![t].pc = "set_evaluations"]
    /\ UNCHANGED <<policy, active_policy, latest_evaluations, risk_history>>
    /\ CrewStep

\* _record_state: self.latest_evaluations = evaluations
record_evaluations(t) ==
    /\ threads[t].pc = "set_evaluations"
    /\ latest_evaluations' = threads[t].evaluations
    /\ threads' = [threads EXCEPT ![t].pc = "append_risk"]
    /\ UNCHANGED <<policy, active_policy, latest_candidates, risk_history>>
    /\ CrewStep

\* _record_state: self.risk_history.append(risk), and the call returns
record_risk(t) ==
    /\ threads[t].pc = "append_risk"
    /\ risk_history' = Append(risk_history, threads[t].risk)
    /\ Returns(t, "returned")
    /\ UNCHANGED <<policy, active_policy, latest_candidates, latest_evaluations>>
    /\ CrewStep

SharedCrewInit ==
    /\ CrewInit([jd_data |-> None, policy |-> None,
                 candidate_pool |-> BASE_PROFILES,
                 bias_thresholds |-> EmptyThresholds])
    /\ campaigns = <<>>
    /\ audit_logs = <<>>
    /\ lock = "free"
    /\ background_tasks = <<>>
    /\ response = [endpoint |-> "none", status_code |-> 0]
    /\ threads = [t \in Threads |-> IdleCaller]
    /\ events = <<>>

SharedCrewNext ==
    \E t \in Threads :
        \/ \E request \in CrewRequests : crew_call(t, request)
        \/ crew_source(t)
        \/ crew_rank(t)
        \/ record_candidates(t)
        \/ record_evaluations(t)
        \/ record_risk(t)

SharedCrewSpec == SharedCrewInit /\ [][SharedCrewNext]_vars

-----------------------------------------------------------------------------
(* AgentTracer.trace statement by statement: the start event on entry, the
   block, the except clause (the failed event, the exception wrapped as
   CrewError), the finally clause (the end event), and only then the caller.
   One caller; run_campaign nests the agents' traces inside the crew's. *)

MaxEvents == 6

Main == "main"

Event(event, agent, operation) == [event |-> event, agent |-> agent, operation |-> operation]

\* An open "with tracer.trace(...)": phase is where control is inside it.
TraceFrame(agent, operation, phase) == [agent |-> agent, operation |-> operation, phase |-> phase]

NoValues == [seeds |-> <<>>, evaluations |-> <<>>, ranked |-> <<>>]

\* No with statement has been left yet.
NoExit == [agent |-> "none", operation |-> "none", ok |-> TRUE]

NoCaller ==
    [stack |-> <<>>, request |-> "none", stage |-> "none", values |-> NoValues,
     exc |-> <<>>, exited |-> NoExit]

\* The tracer of each traced operation.
TracerOf(operation) ==
    CASE operation = "run_campaign" -> "crew"
      [] operation = "research" -> "researcher"
      [] operation = "evaluate" -> "evaluator"
      [] operation = "recommend" -> "recommender"
      [] operation = "draft" -> "writer"

TraceRequests ==
    { [op |-> "run_campaign", limit |-> limit] : limit \in {2, 4} }
    \cup { [op |-> "recommend", evaluations |-> e, policy |-> DefaultPolicy] :
              e \in {SampleEvaluations, [SampleEvaluations EXCEPT ![2].defect = "score"]} }
    \cup { [op |-> "draft", candidate |-> c[1]] : c \in CandidateLists \ {<<>>} }

TraceArgs ==
    CrewArgs \cup { [jd_data |-> None, policy |-> Some(UnsetPolicy),
                     candidate_pool |-> BASE_PROFILES,
                     bias_thresholds |-> EmptyThresholds] }

Top(stack) == stack[Len(stack)]
Pop(stack) == SubSeq(stack, 1, Len(stack) - 1)
SetPhase(stack, phase) == [stack EXCEPT ![Len(stack)].phase = phase]

TraceIdle ==
    /\ UNCHANGED <<job_description, candidate_pool, bias_thresholds, policy>>
    /\ UNCHANGED <<campaigns, audit_logs, lock, background_tasks, response>>

SnapshotsUnchanged == UNCHANGED <<latest_candidates, latest_evaluations, risk_history>>

\* A public call enters its trace: the start event, then the block.
trace_call(request) ==
    /\ threads[Main].stack = <<>>
    /\ Len(events) < MaxEvents
    /\ request.op = "run_campaign" => Len(risk_history) < MaxHistory
    /\ events' = Append(events, Event("agent_operation_start", TracerOf(request.op), request.op))
    /\ threads' = [threads EXCEPT ![Main] =
                      [NoCaller EXCEPT
                          !.stack = <<TraceFrame(TracerOf(request.op), request.op, "block")>>,
                          !.request = request,
                          !.stage = IF request.op = "run_campaign" THEN "research" ELSE "none",
                          !.exited = threads[Main].exited]]
    \* recommend() applies the policy before it enters its trace
    /\ active_policy' = IF request.op = "recommend" THEN request.policy ELSE active_policy
    /\ UNCHANGED last
    /\ SnapshotsUnchanged
    /\ TraceIdle

\* Inside the run_campaign block the next agent enters its own trace.
stage_enter ==
    /\ threads[Main].stack # <<>>
    /\ Top(threads[Main].stack) = TraceFrame("crew", "run_campaign", "block")
    /\ threads[Main].stage \in {"research", "evaluate", "recommend"}
    /\ LET operation == threads[Main].stage IN
       /\ events' = Append(events, Event("agent_operation_start", TracerOf(operation), operation))
       /\ threads' = [threads EXCEPT ![Main].stack =
                         Append(@, TraceFrame(TracerOf(operation), operation, "block"))]
       /\ active_policy' = IF operation = "recommend" THEN policy ELSE active_policy
    /\ UNCHANGED last
    /\ SnapshotsUnchanged
    /\ TraceIdle

\* What the block of an agent's trace gives.
agent_block(caller, operation) ==
    CASE operation = "research" ->
            research_block(candidate_pool, job_description, caller.request.limit)
      [] operation = "evaluate" ->
            evaluate_block(bias_thresholds, caller.values.seeds)
      [] operation = "recommend" ->
            IF caller.request.op = "recommend"
            THEN recommend_block(caller.request.evaluations, caller.request.policy)
            ELSE recommend_block(caller.values.evaluations, policy)
      [] operation = "draft" ->
            draft_block("CAMP_001", caller.request.candidate, "default")

Keep(values, operation, value) ==
    CASE operation = "research" -> [values EXCEPT !.seeds = value]
      [] operation = "evaluate" -> [values EXCEPT !.evaluations = value]
      [] operation = "recommend" -> [values EXCEPT !.ranked = value]
      [] operation = "draft" -> values

\* The block of an agent's trace runs: it ends normally or raises.
trace_block ==
    /\ threads[Main].stack # <<>>
    /\ Top(threads[Main].stack).phase = "block"
    /\ Top(threads[Main].stack).operation # "run_campaign"
    /\ LET operation == Top(threads[Main].stack).operation
           out == agent_block(threads[Main], operation)
       IN  threads' = [threads EXCEPT
              ![Main].stack = SetPhase(@, IF out.ok THEN "finally" ELSE "except"),
              ![Main].exc = out.exc,
              ![Main].values = IF out.ok THEN Keep(@, operation, out.value) ELSE @]
    /\ UNCHANGED <<events, last, active_policy>>
    /\ SnapshotsUnchanged
    /\ TraceIdle

\* The end of the run_campaign block: assess_risk and _record_state, untraced.
crew_record ==
    /\ threads[Main].stack # <<>>
    /\ Top(threads[Main].stack) = TraceFrame("crew", "run_campaign", "block")
    /\ threads[Main].stage = "risk"
    /\ LET risk == assess_risk(threads[Main].values.evaluations) IN
       IF risk.ok
       THEN /\ record_state(threads[Main].values.ranked,
                            threads[Main].values.evaluations, risk.value)
            /\ threads' = [threads EXCEPT ![Main].stack = SetPhase(@, "finally"),
                                          ![Main].stage = "none"]
       ELSE /\ SnapshotsUnchanged
            /\ threads' = [threads EXCEPT ![Main].stack = SetPhase(@, "except"),
                                          ![Main].exc = risk.exc]
    /\ UNCHANGED <<events, last, active_policy>>
    /\ TraceIdle

\* except Exception: the failed event, then raise CrewError(...) from exc
trace_except ==
    /\ threads[Main].stack # <<>>
    /\ Top(threads[Main].stack).phase = "except"
    /\ LET frame == Top(threads[Main].stack) IN
       /\ events' = Append(events, Event("agent_operation_failed", frame.agent, frame.operation))
       /\ threads' = [threads EXCEPT
             ![Main].stack = SetPhase(@, "finally"),
             ![Main].exc = <<Frame("CrewError", frame.agent, frame.operation)>> \o @]
    /\ UNCHANGED <<last, active_policy>>
    /\ SnapshotsUnchanged
    /\ TraceIdle

NextStage(stage) ==
    CASE stage = "research" -> "evaluate"
      [] stage = "evaluate" -> "recommend"
      [] stage = "recommend" -> "risk"

\* Control leaves a trace: to the enclosing block, or to the public caller.
Leave(frame) ==
    LET caller == threads[Main]
        ok == caller.exc = <<>>
        exited == [agent |-> frame.agent, operation |-> frame.operation, ok |-> ok]
        rest == Pop(caller.stack)
    IN  IF rest = <<>>
        THEN /\ threads' = [threads EXCEPT ![Main] = [NoCaller EXCEPT !.exited = exited]]
             /\ last' = Call(caller.request.op, NoArgs,
                             IF ok THEN "returned" ELSE "raised",
                             IF frame.operation = "run_campaign" THEN caller.values.ranked
                             ELSE <<>>,
                             caller.exc,
                             IF ok THEN "none" ELSE caller.stage)
        ELSE /\ threads' = [threads EXCEPT
                   ![Main].stack = IF ok THEN rest ELSE SetPhase(rest, "except"),
                   ![Main].stage = IF ok THEN NextStage(@) ELSE @,
                   ![Main].exited = exited]
             /\ UNCHANGED last

\* A faulty trace: the end event in an else clause, logged on success only.
trace_finally_on_success ==
    /\ threads[Main].stack # <<>>
    /\ Top(threads[Main].stack).phase = "finally"
    /\ LET frame == Top(threads[Main].stack) IN
       /\ events' = IF threads[Main].exc = <<>>
                    THEN Append(events, Event("agent_operation_end", frame.agent, frame.operation))
                    ELSE events
       /\ Leave(frame)
    /\ UNCHANGED active_policy
    /\ SnapshotsUnchanged
    /\ TraceIdle

\* finally: the end event; then the with statement is left
trace_finally ==
    /\ threads[Main].stack # <<>>
    /\ Top(threads[Main].stack).phase = "finally"
    /\ LET frame == Top(threads[Main].stack) IN
       /\ events' = Append(events, Event("agent_operation_end", frame.agent, frame.operation))
       /\ Leave(frame)
    /\ UNCHANGED active_policy
    /\ SnapshotsUnchanged
    /\ TraceIdle

TraceInit ==
    /\ \E a \in TraceArgs : CrewInit(a)
    /\ campaigns = <<>>
    /\ audit_logs = <<>>
    /\ lock = "free"
    /\ background_tasks = <<>>
    /\ response = [endpoint |-> "none", status_code |-> 0]
    /\ threads = [t \in {Main} |-> NoCaller]
    /\ events = <<>>

TraceNext ==
    \/ \E request \in TraceRequests : trace_call(request)
    \/ stage_enter
    \/ trace_block
    \/ crew_record
    \/ trace_except
    \/ trace_finally

TraceSpec == TraceInit /\ [][TraceNext]_vars

-----------------------------------------------------------------------------
(* Properties *)

Returned(op) == last.op = op /\ last.status = "returned"
Raised(op) == last.op = op /\ last.status = "raised"

CandidateIds(seq) == [i \in DOMAIN seq |-> seq[i].candidate_id]

\* C1: the sequence recommend returns (through run_campaign or rerank) is
\* non-increasing in final_score: for all i < j, ranked[i].final_score >=
\* ranked[j].final_score.
C1_RankingNonIncreasing ==
    (Returned("run_campaign") \/ Returned("rerank")) =>
        \A i, j \in DOMAIN last.result :
            i < j => last.result[i].final_score >= last.result[j].final_score

\* C2: a run_campaign in which a stage fails raises, and leaves
\* latest_candidates, latest_evaluations and risk_history as they were.
C2_FailedRunCommitsNothing ==
    [][(last'.op = "run_campaign" /\ last'.stage # "none") =>
          /\ last'.status = "raised"
          /\ UNCHANGED <<latest_candidates, latest_evaluations, risk_history>>]_vars

\* A run_campaign that failed in recommend, after evaluations existed, on a
\* crew that already holds a snapshot and a risk history.
C2_Witness ==
    /\ Raised("run_campaign")
    /\ last.stage = "recommend"
    /\ latest_evaluations # <<>>
    /\ latest_candidates # <<>>
    /\ risk_history # <<>>

\* C3: rerank([]) returns [] and raises nothing, in every state.
C3_RerankEmptyListReturnsEmpty ==
    (last.op = "rerank" /\ last.args.evaluations.given
        /\ last.args.evaluations.value = <<>>) =>
        (last.status = "returned" /\ last.result = <<>>)

\* C4: rerank without evaluations, while no evaluation snapshot is stored,
\* returns an empty sequence without raising and leaves latest_candidates,
\* latest_evaluations, risk_history and the crew's policy unchanged.
C4_RerankWithoutSnapshotIsSoft ==
    [][(last'.op = "rerank" /\ ~last'.args.evaluations.given
            /\ latest_evaluations = <<>>) =>
          /\ last'.status = "returned"
          /\ last'.result = <<>>
          /\ UNCHANGED <<latest_candidates, latest_evaluations, risk_history, policy>>]_vars

\* rerank(None, p) returned on a crew without snapshot whose policy is not p.
C4_Witness ==
    /\ Returned("rerank")
    /\ ~last.args.evaluations.given
    /\ latest_evaluations = <<>>
    /\ last.args.policy.given
    /\ last.args.policy.value # policy
    /\ last.result = <<>>

\* C5: risk_history only grows: a successful run_campaign and a rerank that
\* produces a ranking each append exactly one entry at the end, and no step
\* removes, reorders or replaces an entry or appends otherwise.
ProducesRanking(call) ==
    /\ call.status = "returned"
    /\ \/ call.op = "run_campaign"
       \/ call.op = "rerank" /\ call.result # <<>>

C5_RiskHistoryAppendOnly ==
    [][/\ Len(risk_history') >= Len(risk_history)
       /\ SubSeq(risk_history', 1, Len(risk_history)) = risk_history
       /\ Len(risk_history') =
             Len(risk_history) + (IF ProducesRanking(last') THEN 1 ELSE 0)]_vars

\* Two different assessments in the history, the second appended by a rerank.
C5_Witness ==
    /\ Len(risk_history) >= 2
    /\ risk_history[1] # risk_history[2]
    /\ Returned("rerank")

\* C6: every ranked candidate has final_score >= the raw score of its
\* evaluation, for every policy.
C6_FinalScoreAtLeastRaw ==
    (Returned("run_campaign") \/ (Returned("rerank") /\ last.result # <<>>)) =>
        LET sorted_evaluations == SortByScoreDesc(latest_evaluations) IN
        \A i \in DOMAIN last.result :
            last.result[i].final_score >= sorted_evaluations[i].score

\* C7: generate_outreach drafts for exactly the supplied list whenever a list
\* is supplied, uses the latest ranked snapshot only when none is supplied,
\* and returns an empty sequence without raising for an empty roster.
C7_OutreachUsesSuppliedList ==
    last.op = "generate_outreach" =>
        /\ last.args.candidates.given =>
              /\ last.args.roster = last.args.candidates.value
              /\ last.status = "returned" =>
                    CandidateIds(last.result) = CandidateIds(last.args.candidates.value)
        /\ ~last.args.candidates.given => last.args.roster = latest_candidates
        /\ last.args.roster = <<>> => (last.status = "returned" /\ last.result = <<>>)

\* C8: batch drafting returns the drafts in roster order, and a candidate
\* whose draft fails does not keep the other candidates' drafts from being
\* returned.
Draftable(candidate) == draft_block("CAMP_001", candidate, "default").ok

C8_DraftFailuresIsolated ==
    last.op = "generate_outreach" =>
        /\ last.status = "returned"
        /\ CandidateIds(last.result) =
              CandidateIds(SelectSeq(last.args.roster, Draftable))

\* C9: a failure inside run_campaign, rerank or generate_outreach reaches the
\* caller as a CrewError whose cause is the original exception.
C9_FailuresAreCrewErrors ==
    last.status = "raised" =>
        /\ Len(last.exc) = 2
        /\ last.exc[1].kind = "CrewError"
        /\ last.exc[2].kind # "CrewError"

\* C10: when a stage fails in run_campaign, the CrewError the caller gets
\* names the failing stage's agent and operation and has the original
\* exception as its cause.
StageAgent(stage) ==
    CASE stage = "research" -> "researcher"
      [] stage = "evaluate" -> "evaluator"
      [] stage = "recommend" -> "recommender"
      [] OTHER -> "crew"

C10_ErrorNamesFailingStage ==
    Raised("run_campaign") =>
        /\ last.exc[1].kind = "CrewError"
        /\ last.exc[1].agent = StageAgent(last.stage)
        /\ last.exc[1].operation = last.stage
        /\ Len(last.exc) = 2
        /\ last.exc[2].kind # "CrewError"

-----------------------------------------------------------------------------
(* Properties of the agents called directly (AgentSpec) *)

TotalFlags(evaluations) ==
    SumSeq([i \in DOMAIN evaluations |-> Len(evaluations[i].bias_flags)])

AssessedRisk == last.op = "assess_risk" /\ last.status = "returned"

\* C11, as stated: the score assess_risk returns equals
\* (total number of bias flags) / max(1, number of evaluations).
C11_ScoreIsFlagDensity ==
    AssessedRisk =>
        last.result.score.num * Max(1, Len(last.args.evaluations))
            = TotalFlags(last.args.evaluations) * last.result.score.den

\* C11, amended: the score assess_risk returns equals
\* min(1.0, (total number of bias flags) / max(1, number of evaluations)).
C11_ScoreIsClampedFlagDensity ==
    AssessedRisk =>
        LET flags == TotalFlags(last.args.evaluations)
            count == Max(1, Len(last.args.evaluations))
        IN  /\ last.result.score.den > 0
            /\ IF flags <= count
               THEN last.result.score.num * count = flags * last.result.score.den
               ELSE last.result.score.num = last.result.score.den

\* More flags than evaluations: the clamp applies.
C11_Witness ==
    /\ AssessedRisk
    /\ TotalFlags(last.args.evaluations) > Len(last.args.evaluations)
    /\ Len(last.args.evaluations) > 0

\* C12: assess_risk on an empty evaluation set raises nothing and yields
\* score 0.0, level "standard" and bias_flags 0.
C12_EmptySetIsDenominatorSafe ==
    (last.op = "assess_risk" /\ last.args.evaluations = <<>>) =>
        /\ last.status = "returned"
        /\ last.result.score.num = 0
        /\ last.result.score.den > 0
        /\ last.result.level = "standard"
        /\ last.result.bias_flags = 0

C12_Witness ==
    AssessedRisk /\ last.args.evaluations = <<>>

Researched == last.op = "research" /\ last.status = "returned"

\* C13: for every integer limit and every catalog, research returns seeds for
\* the first min(max(limit, 0), catalog size) entries in source order; a
\* limit <= 0 yields an empty sequence.
C13_ResearchHonoursLimit ==
    Researched =>
        LET k == Min(Max(last.args.limit, 0), Len(candidate_pool)) IN
        /\ Len(last.result) = k
        /\ \A i \in 1 .. k : last.result[i].name = candidate_pool[i].name

\* C14: the candidate id is a function of (candidate name, job title) only:
\* any other research call, with another catalog, limit or job-description
\* content but the same title, gives the same name the same id.
C14_CandidateIdDeterminedByNameAndTitle ==
    Researched =>
        \A pool2 \in AgentPools, jd2 \in AgentJDs, limit2 \in AgentLimits :
            LET other == research(pool2, jd2, limit2) IN
            (other.ok /\ jd2.title = last.args.job_description.title) =>
                \A i \in DOMAIN last.result, j \in DOMAIN other.value :
                    last.result[i].name = other.value[j].name
                        => last.result[i].candidate_id = other.value[j].candidate_id

\* Seeds under a title for which another job description with other content exists.
C14_Witness ==
    /\ Researched
    /\ Len(last.result) >= 2
    /\ \E jd2 \in AgentJDs :
          /\ jd2.title = last.args.job_description.title
          /\ jd2.content_len # last.args.job_description.content_len

Evaluated == last.op = "evaluate" /\ last.status = "returned"

\* C15: evaluate returns one EvaluationResult per seed, in the seeds' order,
\* each with its seed's candidate id and the score min(1.0, seed.score + 0.1);
\* an empty seed sequence yields an empty result.
C15_OneResultPerSeed ==
    /\ Evaluated =>
          /\ Len(last.result) = Len(last.args.seeds)
          /\ \A i \in DOMAIN last.args.seeds :
                /\ last.result[i].candidate_id = last.args.seeds[i].candidate_id
                /\ last.result[i].score =
                      (IF last.args.seeds[i].score + 1000 < 10000
                       THEN last.args.seeds[i].score + 1000 ELSE 10000)
    /\ (last.op = "evaluate" /\ last.args.seeds = <<>>) =>
          (last.status = "returned" /\ last.result = <<>>)

\* Two or more seeds, one whose boosted score saturates and one whose does not.
C15_Witness ==
    /\ Evaluated
    /\ \E i, j \in DOMAIN last.args.seeds :
          /\ last.args.seeds[i].score + 1000 > 10000
          /\ last.args.seeds[j].score + 1000 < 10000

\* C16: every EvaluationResult produced by research followed by evaluate has
\* a score within [0, 1], whatever the catalog's baseline scores.
C16_EvaluationScoreInUnitInterval ==
    Evaluated =>
        \A i \in DOMAIN last.result :
            0 <= last.result[i].score /\ last.result[i].score <= 10000

\* The threshold the seed's role is compared against.
RoleThreshold(role) ==
    IF role \in DOMAIN bias_thresholds THEN bias_thresholds[role] ELSE bias_thresholds["default"]

FlagCondition(seed, flag) ==
    CASE flag = "Data Deficient" -> \E t \in DOMAIN seed.tags : seed.tags[t] = flag
      [] flag = "Manual Review Required" -> \E t \in DOMAIN seed.tags : seed.tags[t] = flag
      [] flag = "Bias Warning" -> seed.score < RoleThreshold(seed.role)

\* C17: the bias flags of each result are exactly those of
\* <<"Data Deficient", "Manual Review Required", "Bias Warning">> whose
\* condition holds for the seed, in that order and each at most once.
C17_BiasFlagsAreTheHoldingConditions ==
    Evaluated =>
        \A i \in DOMAIN last.args.seeds :
            last.result[i].bias_flags =
                SelectSeq(<<"Data Deficient", "Manual Review Required", "Bias Warning">>,
                          LAMBDA flag : FlagCondition(last.args.seeds[i], flag))

\* A seed scoring exactly its threshold, and a seed with a repeated tag.
C17_Witness ==
    /\ Evaluated
    /\ \E i \in DOMAIN last.args.seeds :
          last.args.seeds[i].score = RoleThreshold(last.args.seeds[i].role)
    /\ \E i \in DOMAIN last.args.seeds :
          /\ Len(last.args.seeds[i].tags) = 2
          /\ last.args.seeds[i].tags[1] = last.args.seeds[i].tags[2]
          /\ last.result[i].bias_flags # <<>>

\* C18: with any map of per-role overrides, evaluate raises no error on
\* well-formed seeds; a role without an override is compared against 0.65.
C18_OverridesNeverRaise ==
    last.op = "evaluate" =>
        /\ last.status = "returned"
        /\ \A i \in DOMAIN last.args.seeds :
              ("Bias Warning" \in {last.result[i].bias_flags[f] :
                                      f \in DOMAIN last.result[i].bias_flags})
                 <=> last.args.seeds[i].score <
                        (IF last.args.seeds[i].role \in DOMAIN bias_thresholds
                         THEN bias_thresholds[last.args.seeds[i].role]
                         ELSE 6500)

Recommended == last.op = "recommend" /\ last.status = "returned"

\* C19: a ranked candidate carries the note "Manual review advised." iff its
\* evaluation carries at least one bias flag; a seed tagged "Data Deficient"
\* and scoring below its role threshold ends with the flags "Data Deficient"
\* and "Bias Warning" and a non-empty note.
C19_NoteIffFlagged ==
    Recommended =>
        /\ Len(last.result) = Len(last.args.evaluations)
        /\ \A p \in DOMAIN last.result :
              \E i \in DOMAIN last.args.evaluations :
                 /\ last.args.evaluations[i].candidate_id = last.result[p].candidate_id
                 /\ (last.result[p].notes = "Manual review advised."
                        <=> last.args.evaluations[i].bias_flags # <<>>)
                 /\ (last.result[p].notes # "Manual review advised."
                        => last.result[p].notes = "None")
        /\ \A i \in DOMAIN last.args.seeds :
              (/\ Contains(last.args.seeds[i].tags, "Data Deficient")
               /\ last.args.seeds[i].score < RoleThreshold(last.args.seeds[i].role))
              => /\ Contains(last.args.evaluations[i].bias_flags, "Data Deficient")
                 /\ Contains(last.args.evaluations[i].bias_flags, "Bias Warning")
                 /\ \E p \in DOMAIN last.result :
                       /\ last.result[p].candidate_id = last.args.seeds[i].candidate_id
                       /\ last.result[p].notes = "Manual review advised."

\* One entry flagged for a low score alone, one flagged "Data Deficient" and
\* "Bias Warning", and one without any flag.
C19_Witness ==
    /\ Recommended
    /\ \E p \in DOMAIN last.result :
          /\ last.result[p].bias_flags = <<"Bias Warning">>
          /\ last.result[p].notes = "Manual review advised."
    /\ \E p \in DOMAIN last.result :
          /\ Contains(last.result[p].bias_flags, "Data Deficient")
          /\ Contains(last.result[p].bias_flags, "Bias Warning")
    /\ \E p \in DOMAIN last.result : last.result[p].notes = "None"

-----------------------------------------------------------------------------
(* Properties of the outreach message (WriterSpec) *)

Drafted == last.op = "draft" /\ last.status = "returned"

EscapeEntities ==
    { <<"&", "a", "m", "p", ";">>, <<"&", "l", "t", ";">>, <<"&", "g", "t", ";">>,
      <<"&", "q", "u", "o", "t", ";">>, <<"&", "#", "x", "2", "7", ";">> }

BeginsEntity(message, i) ==
    \E entity \in EscapeEntities :
        /\ i + Len(entity) - 1 <= Len(message)
        /\ SubSeq(message, i, i + Len(entity) - 1) = entity

\* C20: whatever the candidate's and the template's texts, the message built
\* by draft holds no raw <, >, double quote or single quote, and every & in
\* it begins an escape entity.
C20_MessageHasNoRawMarkup ==
    Drafted =>
        \A i \in DOMAIN last.result.message :
            /\ last.result.message[i] \notin {"<", ">", "\"", "'"}
            /\ last.result.message[i] = "&" => BeginsEntity(last.result.message, i)

\* A candidate text with a quote and an ampersand, a template text with markup.
C20_Witness ==
    /\ Drafted
    /\ last.args.candidate.name = <<"'", "&">>
    /\ last.args.template.cta = <<"<", "\"">>
    /\ \E i \in DOMAIN last.result.message :
          BeginsEntity(last.result.message, i) /\ last.result.message[i + 1] = "#"

-----------------------------------------------------------------------------
(* Properties of the snapshots, the policy and the ranking order *)

Occurrences(seq, id) == Cardinality({i \in DOMAIN seq : seq[i].candidate_id = id})

\* C27: after any sequence of orchestrator operations run one after the
\* other, latest_candidates and latest_evaluations hold the same candidate
\* ids with the same multiplicity, and the last entry of a non-empty
\* risk_history counts the bias flags of latest_evaluations.
C27_SnapshotsAgree ==
    /\ Len(latest_candidates) = Len(latest_evaluations)
    /\ \A i \in DOMAIN latest_evaluations :
          Occurrences(latest_candidates, latest_evaluations[i].candidate_id)
              = Occurrences(latest_evaluations, latest_evaluations[i].candidate_id)
    /\ risk_history # <<>> =>
          risk_history[Len(risk_history)].bias_flags = TotalFlags(latest_evaluations)

\* A rerank on supplied evaluations after a campaign run of another size.
C27_Witness ==
    /\ last.op = "rerank" /\ last.status = "returned"
    /\ last.args.evaluations.given
    /\ Len(risk_history) = 2
    /\ Len(latest_evaluations) = 2
    /\ TotalFlags(latest_evaluations) > 0

\* C28: the recommender's active policy equals the orchestrator's policy, and
\* the policy changes only in a rerank that supplied a policy and produced a
\* ranking, to the policy supplied; run_campaign and generate_outreach never
\* change it.
C28_PolicyFollowsSuccessfulRerank ==
    [][ /\ active_policy' = policy'
        /\ policy' # policy =>
              /\ last'.op = "rerank"
              /\ last'.status = "returned"
              /\ last'.result # <<>>
              /\ last'.args.policy.given
              /\ policy' = last'.args.policy.value ]_vars

\* The evaluation a ranked entry was made from (candidate ids are distinct).
SourceIndex(evaluations, ranked_entry) ==
    CHOOSE i \in DOMAIN evaluations :
        evaluations[i].candidate_id = ranked_entry.candidate_id

\* C29: recommend returns one RankedCandidate per evaluation with that
\* evaluation's candidate id, none dropped or duplicated, ordered by raw
\* evaluation score descending, equal scores in their input order.
C29_RankingIsStablePermutation ==
    Recommended =>
        LET evaluations == last.args.evaluations
            ranked == last.result
        IN  /\ Len(ranked) = Len(evaluations)
            /\ \A i \in DOMAIN evaluations :
                  Occurrences(ranked, evaluations[i].candidate_id) = 1
            /\ \A p, q \in DOMAIN ranked :
                  p < q =>
                     LET i == SourceIndex(evaluations, ranked[p])
                         j == SourceIndex(evaluations, ranked[q])
                     IN  \/ evaluations[i].score > evaluations[j].score
                         \/ evaluations[i].score = evaluations[j].score /\ i < j

\* Three or more evaluations, two of them with the same raw score.
C29_Witness ==
    /\ Recommended
    /\ Len(last.result) >= 3
    /\ \E i, j \in DOMAIN last.args.evaluations :
          i < j /\ last.args.evaluations[i].score = last.args.evaluations[j].score

-----------------------------------------------------------------------------
(* Properties of the API and the campaign store *)

\* A create request that _validate_jd has to turn down.
TooShort(payload) == payload.title_len < 5 \/ payload.content_len < 20

RejectedUntouched ==
    UNCHANGED <<latest_candidates, latest_evaluations, risk_history, campaigns, audit_logs>>

\* C22, as stated: a campaign-creation request whose trimmed title is shorter
\* than 5 characters or whose trimmed content is shorter than 20 is answered
\* 400, and the orchestrator's snapshots and risk history, the stored
\* campaigns and the audit log are unchanged by it.
C22_ShortRequestAnswered400 ==
    [][ (/\ response' # response
         /\ response'.endpoint = "create_campaign"
         /\ TooShort(response'.request))
        => (response'.status_code = 400 /\ RejectedUntouched) ]_vars

\* C22, amended: such a request is answered with a client error, 422 when
\* the title or the description is empty and 400 otherwise, and the
\* orchestrator's snapshots and risk history, the stored campaigns and the
\* audit log are unchanged by it.
C22_ShortRequestRejected ==
    [][ (/\ response' # response
         /\ response'.endpoint = "create_campaign"
         /\ TooShort(response'.request))
        => (/\ response'.status_code =
                  (IF response'.request.title_len + response'.request.title_pad = 0
                      \/ response'.request.description_len = 0
                   THEN 422 ELSE 400)
            /\ RejectedUntouched) ]_vars

\* A request with too short a content, turned down after other requests
\* have filled the store and the snapshots.
C22_Witness ==
    /\ response.endpoint = "create_campaign"
    /\ response.status_code = 400
    /\ response.detail = "Invalid JD content"
    /\ Len(audit_logs) > 1
    /\ latest_candidates # <<>>

\* C21: any two drafts produced by separate draft calls have different
\* draft ids.
C21_DraftIdsDistinct ==
    \A c, d \in DOMAIN campaigns :
        \A i \in DOMAIN campaigns[c].outreach_drafts,
           j \in DOMAIN campaigns[d].outreach_drafts :
            (c # d \/ i # j) =>
                campaigns[c].outreach_drafts[i].draft_id
                    # campaigns[d].outreach_drafts[j].draft_id

\* C25: while CAMP_001 exists, its status endpoint reports a status in
\* {created, running, completed}, after any sequence of API operations.
C25_SeedStatusInPolledSet ==
    (/\ response.endpoint = "campaign_status"
     /\ response.request = "CAMP_001"
     /\ response.status_code = 200)
    => response.body.status \in {"created", "running", "completed"}

\* C23: every mutating operation of the store runs while holding the store's
\* lock, so no two mutations of the campaign map or the audit log interleave.
C23_MutationsHoldLock ==
    \A t \in DOMAIN threads :
        threads[t].pc \in {"write", "log", "append"} => lock = t

\* C26: create_campaign assigns an id that no stored campaign holds, so a
\* creation never replaces an existing campaign record.
C26_CreateAssignsFreshId ==
    [][ \A t \in DOMAIN threads :
            (/\ threads[t].pc = "write"
             /\ threads[t].request.op = "create_campaign"
             /\ threads'[t].pc # "write")
            => /\ threads'[t].result.campaign_id \notin DOMAIN campaigns
               /\ \A k \in DOMAIN campaigns :
                     k \in DOMAIN campaigns' /\ campaigns'[k] = campaigns[k] ]_vars

\* C24: when run_campaign and rerank calls interleave on one shared
\* orchestrator, then once all calls have returned latest_candidates is the
\* ranking of latest_evaluations: the two snapshots come from one call.
C24_SnapshotsFromOneCall ==
    (threads # <<>> /\ \A t \in DOMAIN threads : threads[t].pc = "idle")
    => \E pol \in {DefaultPolicy, PenaltyPolicy,
                   RankingPolicy("diversity", DefaultDiversityBonus)} :
          recommend(latest_evaluations, pol) = Return(latest_candidates)

\* The names of the events logged for one traced operation, in order.
EventNames(operation) ==
    LET own == SelectSeq(events, LAMBDA e : e.operation = operation
                                            /\ e.agent = TracerOf(operation))
    IN  [i \in DOMAIN own |-> own[i].event]

Succeeded == <<"agent_operation_start", "agent_operation_end">>
Failed == <<"agent_operation_start", "agent_operation_failed", "agent_operation_end">>

\* A log of finished operations: each is start, end or start, failed, end.
RECURSIVE Finished(_)
Finished(names) ==
    \/ names = <<>>
    \/ /\ Len(names) >= 2
       /\ SubSeq(names, 1, 2) = Succeeded
       /\ Finished(SubSeq(names, 3, Len(names)))
    \/ /\ Len(names) >= 3
       /\ SubSeq(names, 1, 3) = Failed
       /\ Finished(SubSeq(names, 4, Len(names)))

LastNames(names, n) ==
    IF Len(names) < n THEN <<>> ELSE SubSeq(names, Len(names) - n + 1, Len(names))

TracedOperations == {"run_campaign", "research", "evaluate", "recommend", "draft"}

Entered(operation) ==
    \E i \in DOMAIN threads[Main].stack : threads[Main].stack[i].operation = operation

\* C30: every traced operation logs its start event first and exactly one
\* end event last, whether it succeeds or fails; when it fails, exactly one
\* failed event lies between them, and all of this is logged before the
\* error (or the result) reaches the caller.
C30_StartFailedEndInOrder ==
    /\ \A operation \in TracedOperations :
          ~Entered(operation) => Finished(EventNames(operation))
    /\ LET exited == threads[Main].exited IN
       (exited # NoExit /\ ~Entered(exited.operation))
       => IF exited.ok
          THEN LastNames(EventNames(exited.operation), 2) = Succeeded
               /\ LastNames(EventNames(exited.operation), 3) # Failed
          ELSE LastNames(EventNames(exited.operation), 3) = Failed

\* run_campaign has failed inside an agent: both traces logged their failure.
C30_Witness ==
    /\ last.op = "run_campaign"
    /\ last.status = "raised"
    /\ threads[Main].stack = <<>>
    /\ threads[Main].exited = [agent |-> "crew", operation |-> "run_campaign", ok |-> FALSE]
    /\ Len(last.exc) = 3
    /\ Len(SelectSeq(events, LAMBDA e : e.event = "agent_operation_failed")) >= 2

====
